---------------------------- MODULE Spec2Model ----------------------------
(***************************************************************************)
(* State-machine model of the RepoFactor core:                             *)
(*   - the orchestrator decision function and the run_full_flow drive loop *)
(*     (agent_orchestrator_decision.py, multi_agent_orchestrator.py);      *)
(*   - the Lightning AI model client with its quota counter and its        *)
(*     tenacity retry wrapper (lightning_ai_service.py).                   *)
(*   - the stage functions: the structured-output parsers, the diff       *)
(*     engine, implement_changes and the research stage.                  *)
(* The specifications share the variables: Spec drives the orchestrator,   *)
(* SpecClient the model client, SpecParser, SpecDiff, SpecImplement and    *)
(* SpecResearch one stage function each, SpecPipeline the implementation   *)
(* and diff stages of one run on file contents.  The variables of the      *)
(* other parts stay at their initial values.                               *)
(***************************************************************************)
EXTENDS Integers, Sequences, FiniteSets, TLC

VARIABLES
    state,                        \* self.state : OrchestratorState
    instructions,                 \* self.instructions
    latest_implementation_result, \* self.latest_implementation_result
    results,                      \* run_full_flow's local dict `results`
    next_agent,                   \* run_full_flow's local `next_agent`
    pc,                           \* position of run_full_flow
    runs,                         \* number of run_full_flow invocations so far
    start,                        \* history: self.state when the current run began
    trace,                        \* history: <<agent, outcome>> of each stage executed in the run
    calls_made,                   \* LightningAIClient.calls_made
    call,                         \* per generate call: its position and bookkeeping
    chat_calls,                   \* history: invocations of self.llm.chat on this client
    failures,                     \* history: invocations of self.llm.chat that raised
    ret,                          \* history: <<value>> while the last client step was get_remaining_quota()
    arg,                          \* the argument of a call of one of the stage functions
    res                           \* <<>> before that call, <<its outcome>> after it

orchVars   == <<state, instructions, latest_implementation_result, results,
                next_agent, pc, runs, start, trace>>
clientVars == <<calls_made, call, chat_calls, failures, ret>>
callVars   == <<arg, res>>
vars       == <<state, instructions, latest_implementation_result, results,
                next_agent, pc, runs, start, trace,
                calls_made, call, chat_calls, failures, ret, arg, res>>

---------------------------------------------------------------------------
(* Bounds of the model *)

\* largest retry_count an OrchestratorState is constructed with
MaxInitRetry == 4
\* number of run_full_flow invocations on one orchestrator instance
MaxRuns == 2
\* number of times the completion service raises over the life of one client
MaxServiceFailures == 3

(* Program constants *)

\* multi_agent_orchestrator.py: MAX_RETRIES = 3
MAX_RETRIES == 3
\* agent_orchestrator_decision.py: `if state.retry_count < 3`
DECIDE_RETRY_LIMIT == 3

---------------------------------------------------------------------------
(* Orchestrator: data *)

None == "None"

\* values current_stage takes: the markers orchestrator_decide_next knows, the
\* two markers only run_next_agent writes, and an unrecognised value
Stages ==
    {"init", "analysis_complete", "implementation_failed",
     "implementation_complete", "diff_complete", "summary_complete",
     "testing_complete", "implementation_retry", "report_failure", "unknown"}

\* the record OrchestratorState(approval_received, current_stage, retry_count)
OrchestratorState(approval, stage, retries) ==
    [approval_received |-> approval, current_stage |-> stage,
     retry_count |-> retries, last_error_message |-> None]

AgentNames ==
    {"wait_for_approval", "analyzer_agent", "implementation_agent",
     "research_agent", "implementation_retry", "report_failure", "diff_agent",
     "summary_agent", "testing_agent", "finalize", "error"}

\* `next_agent in ("finalize", "error", "report_failure")`
TerminalMarkers == {"finalize", "error", "report_failure"}

\* self.latest_implementation_result = None
NoResult == [none |-> TRUE, success |-> FALSE]

\* text is a sequence of tokens; `x or ""` maps None and "" to the empty text
TextOf(instr) == IF instr.none THEN <<>> ELSE instr.text

\* "\n\n# Suggested fix from research:\n" + best_snippet
FixBlock == <<"fix_header", "snippet">>

\* the instructions replaced by the suggested fix
WithSuggestedFix_replaces(instr) == [none |-> FALSE, text |-> FixBlock]

\* (self.instructions or "") + ("\n\n# Suggested fix from research:\n" + best_snippet)
WithSuggestedFix(instr) == [none |-> FALSE, text |-> TextOf(instr) \o FixBlock]

---------------------------------------------------------------------------
(* Orchestrator: the decision function *)

orchestrator_decide_next_swapped_guard(s) ==
    IF s.current_stage = "init" THEN "analyzer_agent"
    ELSE IF ~s.approval_received THEN "wait_for_approval"
    ELSE IF s.current_stage = "analysis_complete" THEN "implementation_agent"
    ELSE IF s.current_stage = "implementation_failed"
         THEN IF s.retry_count < DECIDE_RETRY_LIMIT THEN "research_agent"
              ELSE "report_failure"
    ELSE IF s.current_stage = "implementation_complete" THEN "diff_agent"
    ELSE IF s.current_stage = "diff_complete" THEN "summary_agent"
    ELSE IF s.current_stage = "summary_complete" THEN "testing_agent"
    ELSE IF s.current_stage = "testing_complete" THEN "finalize"
    ELSE "error"

orchestrator_decide_next_off_by_one(s) ==
    IF ~s.approval_received THEN "wait_for_approval"
    ELSE IF s.current_stage = "init" THEN "analyzer_agent"
    ELSE IF s.current_stage = "analysis_complete" THEN "implementation_agent"
    ELSE IF s.current_stage = "implementation_failed"
         THEN IF s.retry_count <= DECIDE_RETRY_LIMIT THEN "research_agent"
              ELSE "report_failure"
    ELSE IF s.current_stage = "implementation_complete" THEN "diff_agent"
    ELSE IF s.current_stage = "diff_complete" THEN "summary_agent"
    ELSE IF s.current_stage = "summary_complete" THEN "testing_agent"
    ELSE IF s.current_stage = "testing_complete" THEN "finalize"
    ELSE "error"

orchestrator_decide_next(s) ==
    IF ~s.approval_received THEN "wait_for_approval"
    ELSE IF s.current_stage = "init" THEN "analyzer_agent"
    ELSE IF s.current_stage = "analysis_complete" THEN "implementation_agent"
    ELSE IF s.current_stage = "implementation_failed"
         THEN IF s.retry_count < DECIDE_RETRY_LIMIT THEN "research_agent"
              ELSE "report_failure"
    ELSE IF s.current_stage = "implementation_complete" THEN "diff_agent"
    ELSE IF s.current_stage = "diff_complete" THEN "summary_agent"
    ELSE IF s.current_stage = "summary_complete" THEN "testing_agent"
    ELSE IF s.current_stage = "testing_complete" THEN "finalize"
    ELSE "error"

get_next_agent_name == orchestrator_decide_next(state)

---------------------------------------------------------------------------
(* Orchestrator: run_next_agent *)

\* What the awaited stage call can do.  "raise" is the call (or the await of
\* its value) raising: implement_changes and generate_diff are plain functions
\* whose return value run_next_agent awaits, the analysis stage propagates a
\* model-client failure, and the research stage raises when its client cannot
\* be configured.
OutcomesOf(agent_name) ==
    CASE agent_name = "analyzer_agent"       -> {"ok", "raise"}
      [] agent_name = "implementation_agent" -> {"ok", "failed", "raise"}
      [] agent_name = "implementation_retry" -> {"ok", "failed", "raise"}
      [] agent_name = "research_agent"       -> {"snippet", "none", "raise"}
      [] agent_name = "diff_agent"           -> {"ok", "raise"}
      [] OTHER                               -> {"none"}

\* the value run_next_agent returns for a stage that ran with outcome `out`
ResultOf(agent_name, out) ==
    CASE agent_name = "analyzer_agent"       -> "AnalysisResult"
      [] agent_name = "implementation_agent" -> "ImplementationResult"
      [] agent_name = "implementation_retry" -> "ImplementationResult"
      [] agent_name = "research_agent"       -> "ResearchResult"
      [] agent_name = "diff_agent"           -> "DiffResult"
      [] OTHER                               -> None

\* a tail that counts a failed attempt in retry_count
AfterImplementation_counts_failure(s, out) ==
    IF out = "ok"
    THEN [s EXCEPT !.current_stage = "implementation_complete"]
    ELSE [s EXCEPT !.current_stage = "implementation_failed",
                   !.last_error_message = "Unknown error",
                   !.retry_count = s.retry_count + 1]

\* the tail of both implementation branches: record the result, set the stage
AfterImplementation(s, out) ==
    IF out = "ok"
    THEN [s EXCEPT !.current_stage = "implementation_complete"]
    ELSE [s EXCEPT !.current_stage = "implementation_failed",
                   !.last_error_message = "Unknown error"]

\* the stage the research branch leaves behind
StageAfterResearch_stays_failed == "implementation_failed"

StageAfterResearch == "implementation_retry"

\* run_next_agent raises: an unknown agent name, a stage that raised, or the
\* diff branch reading modified_files of a latest_implementation_result of None
Raises(agent_name, out) ==
    \/ out = "raise"
    \/ agent_name \in {"summary_agent", "testing_agent", "finalize", "error",
                       "report_failure"}
    \/ agent_name = "diff_agent" /\ latest_implementation_result.none

\* self.state after run_next_agent returned normally
StateAfter(agent_name, out) ==
    CASE agent_name = "wait_for_approval" -> state
      [] agent_name = "analyzer_agent" ->
            [state EXCEPT !.current_stage = "analysis_complete"]
      [] agent_name = "implementation_agent" -> AfterImplementation(state, out)
      [] agent_name = "research_agent" ->
            [state EXCEPT !.current_stage = StageAfterResearch]
      [] agent_name = "implementation_retry" ->
            IF state.retry_count >= MAX_RETRIES
            THEN [state EXCEPT !.current_stage = "report_failure"]
            ELSE AfterImplementation(
                    [state EXCEPT !.retry_count = state.retry_count + 1], out)
      [] agent_name = "diff_agent" ->
            [state EXCEPT !.current_stage = "diff_complete"]
      [] OTHER -> state

\* whether the branch called a stage (the retry branch returns early at the cap)
StageRan(agent_name) ==
    /\ agent_name \in {"analyzer_agent", "implementation_agent",
                       "research_agent", "implementation_retry", "diff_agent"}
    /\ ~(agent_name = "implementation_retry" /\ state.retry_count >= MAX_RETRIES)
    /\ ~(agent_name = "diff_agent" /\ latest_implementation_result.none)

\* the analysis branch writing its stage marker before the stage call
StateAfterRaise_stage_written_first(agent_name) ==
    IF agent_name = "implementation_retry" /\ state.retry_count < MAX_RETRIES
    THEN [state EXCEPT !.retry_count = state.retry_count + 1]
    ELSE IF agent_name = "analyzer_agent"
         THEN [state EXCEPT !.current_stage = "analysis_complete"]
         ELSE state

\* the retry branch increments retry_count before the stage call, so the
\* increment survives a raise
StateAfterRaise(agent_name) ==
    IF agent_name = "implementation_retry" /\ state.retry_count < MAX_RETRIES
    THEN [state EXCEPT !.retry_count = state.retry_count + 1]
    ELSE state

run_next_agent(out) ==
    LET agent_name == get_next_agent_name
        ran == StageRan(agent_name)
    IN  /\ trace' = IF ran THEN Append(trace, <<agent_name, out>>) ELSE trace
        /\ IF Raises(agent_name, out)
           THEN /\ pc' = "raised"
                /\ state' = StateAfterRaise(agent_name)
                /\ UNCHANGED <<instructions, latest_implementation_result, results>>
           ELSE /\ pc' = "loop"
                /\ state' = StateAfter(agent_name, out)
                /\ instructions' =
                     IF agent_name = "research_agent" /\ out = "snippet"
                     THEN WithSuggestedFix(instructions)
                     ELSE instructions
                /\ latest_implementation_result' =
                     IF ran /\ agent_name \in {"implementation_agent", "implementation_retry"}
                     THEN [none |-> FALSE, success |-> (out = "ok")]
                     ELSE latest_implementation_result
                /\ results' = [results EXCEPT ![next_agent] = IF ran THEN ResultOf(agent_name, out) ELSE None]

---------------------------------------------------------------------------
(* Orchestrator: run_full_flow *)

\* run_full_flow(repo_content_old, instructions): the assignments before the loop
RunFullFlow ==
    /\ pc \in {"idle", "returned", "raised"}
    /\ runs < MaxRuns
    /\ \E instr \in {[none |-> TRUE, text |-> <<>>],
                     [none |-> FALSE, text |-> <<>>],
                     [none |-> FALSE, text |-> <<"user">>]} :
          instructions' = instr
    /\ results' = [a \in AgentNames |-> "absent"]
    /\ next_agent' = None
    /\ pc' = "loop"
    /\ runs' = runs + 1
    /\ start' = state
    /\ trace' = <<>>
    /\ UNCHANGED <<state, latest_implementation_result>>
    /\ UNCHANGED clientVars
    /\ UNCHANGED callVars

\* the head of the loop: compute the next agent, stop at a terminal marker
DecideNext ==
    /\ pc = "loop"
    /\ next_agent' = get_next_agent_name
    /\ pc' = IF next_agent' \in TerminalMarkers THEN "returned" ELSE "run"
    /\ UNCHANGED <<state, instructions, latest_implementation_result, results,
                   runs, start, trace>>
    /\ UNCHANGED clientVars
    /\ UNCHANGED callVars

\* the rest of the loop body: res = await self.run_next_agent(); results[next_agent] = res
RunNextAgent ==
    /\ pc = "run"
    /\ \E out \in OutcomesOf(get_next_agent_name) : run_next_agent(out)
    /\ UNCHANGED <<next_agent, runs, start>>
    /\ UNCHANGED clientVars
    /\ UNCHANGED callVars

---------------------------------------------------------------------------
(* Model client: LightningAIClient *)

\* self.monthly_quota = 20
monthly_quota == 20
\* @retry(stop=stop_after_attempt(3), ...)
STOP_AFTER_ATTEMPT == 3

\* the coroutines that call generate on the one client instance; their calls
\* overlap at the await of the executor and at the retry wrapper's sleep
Callers == {"c1", "c2"}

\* what self.llm.chat hands back through run_in_executor: a non-empty text, an
\* empty or whitespace-only text, None, a structured object, or an exception
Replies == {"text", "empty", "blank", "none", "object", "raise"}

\* a caller with no generate call started yet.  incs and chats count the
\* call's own increments of calls_made and invocations of self.llm.chat;
\* at_quota records whether calls_made >= monthly_quota when generate was called
NoCall ==
    [pc |-> "idle", attempt |-> 0, incs |-> 0, chats |-> 0, fallback |-> FALSE,
     at_quota |-> FALSE, result |-> None, cause |-> None, text |-> None]

\* `if self.calls_made >= self.monthly_quota`
QuotaExceeded_off_by_one(n) == n > monthly_quota

QuotaExceeded(n) == n >= monthly_quota

get_remaining_quota_negated == calls_made - monthly_quota

get_remaining_quota == monthly_quota - calls_made

\* len(response_text.split()) needs a str: None and a structured object raise
\* AttributeError inside the try block
HasSplit(reply) == reply \in {"text", "empty", "blank"}

\* a wrapper that stops one attempt later
AttemptFailed_one_more(cl, cause) ==
    IF cl.attempt <= STOP_AFTER_ATTEMPT
    THEN [cl EXCEPT !.pc = "check", !.attempt = cl.attempt + 1, !.cause = cause]
    ELSE [cl EXCEPT !.pc = "done", !.result = "RetryError", !.cause = cause]

\* the retry wrapper after an attempt raised `cause`: every exception is
\* retried until the attempt limit, then RetryError wraps the last one
AttemptFailed(cl, cause) ==
    IF cl.attempt < STOP_AFTER_ATTEMPT
    THEN [cl EXCEPT !.pc = "check", !.attempt = cl.attempt + 1, !.cause = cause]
    ELSE [cl EXCEPT !.pc = "done", !.result = "RetryError", !.cause = cause]

\* a caller invokes generate(prompt, ...), with or without a prompt_fallback argument
Generate(c) ==
    /\ call[c].pc \in {"idle", "done"}
    /\ \E fb \in BOOLEAN :
          call' = [call EXCEPT ![c] =
                      [NoCall EXCEPT !.pc = "check", !.attempt = 1, !.fallback = fb,
                                     !.at_quota = (calls_made >= monthly_quota)]]
    /\ ret' = <<>>
    /\ UNCHANGED <<calls_made, chat_calls, failures>>
    /\ UNCHANGED orchVars
    /\ UNCHANGED callVars

\* one attempt of generate up to its await: the signature has no
\* prompt_fallback parameter (binding it raises TypeError), then the quota
\* check, then self.llm.chat is handed to the executor
Attempt(c) ==
    /\ call[c].pc = "check"
    /\ IF call[c].fallback
       THEN /\ call' = [call EXCEPT ![c] = AttemptFailed(call[c], "TypeError")]
            /\ UNCHANGED chat_calls
       ELSE IF QuotaExceeded(calls_made)
       THEN /\ call' = [call EXCEPT ![c] = AttemptFailed(call[c], "quota_exceeded")]
            /\ UNCHANGED chat_calls
       ELSE /\ call' = [call EXCEPT ![c].pc = "awaiting", ![c].chats = call[c].chats + 1]
            /\ chat_calls' = chat_calls + 1
    /\ ret' = <<>>
    /\ UNCHANGED <<calls_made, failures>>
    /\ UNCHANGED orchVars
    /\ UNCHANGED callVars

\* the executor completes: an exception becomes "request failed"; otherwise
\* calls_made += 1 and the response record is built from response_text
Reply(c) ==
    /\ call[c].pc = "awaiting"
    /\ \E reply \in Replies :
          IF reply = "raise"
          THEN /\ failures < MaxServiceFailures
               /\ failures' = failures + 1
               /\ call' = [call EXCEPT ![c] = AttemptFailed(call[c], "request_failed")]
               /\ UNCHANGED calls_made
          ELSE /\ calls_made' = calls_made + 1
               /\ UNCHANGED failures
               /\ call' = [call EXCEPT ![c] =
                     IF HasSplit(reply)
                     THEN [call[c] EXCEPT !.pc = "done", !.result = "LightningResponse",
                                          !.text = reply, !.incs = call[c].incs + 1]
                     ELSE AttemptFailed([call[c] EXCEPT !.incs = call[c].incs + 1],
                                        "request_failed")]
    /\ ret' = <<>>
    /\ UNCHANGED chat_calls
    /\ UNCHANGED orchVars
    /\ UNCHANGED callVars

\* get_remaining_quota()
GetRemainingQuota ==
    /\ ret' = <<get_remaining_quota>>
    /\ UNCHANGED <<calls_made, call, chat_calls, failures>>
    /\ UNCHANGED orchVars
    /\ UNCHANGED callVars

\* LightningAIClient.__init__
ClientInit ==
    /\ calls_made = 0
    /\ call = [c \in Callers |-> NoCall]
    /\ chat_calls = 0
    /\ failures = 0
    /\ ret = <<>>

---------------------------------------------------------------------------
(* Specification of the orchestrator *)

OrchInit ==
    /\ \E a \in BOOLEAN, st \in Stages, r \in 0..MaxInitRetry :
          state = OrchestratorState(a, st, r)
    /\ instructions = [none |-> TRUE, text |-> <<>>]
    /\ latest_implementation_result = NoResult
    /\ results = [a \in AgentNames |-> "absent"]
    /\ next_agent = None
    /\ pc = "idle"
    /\ runs = 0
    /\ start = state
    /\ trace = <<>>

\* no stage function is being called
NoCallInit == arg = <<>> /\ res = <<>>

Init == OrchInit /\ ClientInit /\ NoCallInit

Next == RunFullFlow \/ DecideNext \/ RunNextAgent

Spec == Init /\ [][Next]_vars

\* Specification of the model client: the orchestrator stays as constructed
ClientNext ==
    \/ \E c \in Callers : Generate(c)
    \/ \E c \in Callers : Attempt(c)
    \/ \E c \in Callers : Reply(c)
    \/ GetRemainingQuota

\* the orchestrator as constructed by the CLI defaults: no approval, stage init
ClientSpecInit ==
    /\ OrchInit
    /\ state = OrchestratorState(FALSE, "init", 0)
    /\ ClientInit
    /\ NoCallInit

SpecClient == ClientSpecInit /\ [][ClientNext]_vars

\* the drive loop is straight-line code between awaits: once called it keeps running
FairSpec == Init /\ [][Next]_vars /\ WF_vars(DecideNext) /\ WF_vars(RunNextAgent)

---------------------------------------------------------------------------
(* Properties of the orchestrator *)

\* number of stage executions of the current run whose agent is in A
Executions(A) == Cardinality({i \in DOMAIN trace : trace[i][1] \in A})

\* the stage executions of the current run whose agent is in A all had an outcome in O
AllOutcomes(A, O) == \A i \in DOMAIN trace : trace[i][1] \in A => trace[i][2] \in O

ImplementationAgents == {"implementation_agent", "implementation_retry"}

RunEnded == runs >= 1 /\ pc \in {"returned", "raised"}

StartedAtInitApproved ==
    /\ start.approval_received
    /\ start.current_stage = "init"
    /\ start.retry_count = 0

\* the documented transition table, for an approved state
DocumentedAgent(s) ==
    CASE s.current_stage = "init"                    -> "analyzer_agent"
      [] s.current_stage = "analysis_complete"       -> "implementation_agent"
      [] s.current_stage = "implementation_failed" /\ s.retry_count < 3
                                                     -> "research_agent"
      [] s.current_stage = "implementation_failed" /\ s.retry_count >= 3
                                                     -> "report_failure"
      [] s.current_stage = "implementation_complete" -> "diff_agent"
      [] s.current_stage = "diff_complete"           -> "summary_agent"
      [] s.current_stage = "summary_complete"        -> "testing_agent"
      [] s.current_stage = "testing_complete"        -> "finalize"
      [] OTHER                                       -> "error"

\* C1: with approval_received true, every decision step of the drive loop
\* yields the documented agent for the stage and retry count (error for any
\* other stage value), and the decision leaves the orchestrator state unchanged.
C1_DecisionTable ==
    [][(pc = "loop" /\ state.approval_received)
          => (next_agent' = DocumentedAgent(state) /\ state' = state)]_vars

\* C1 witness: the retry limit decided report_failure at retry_count = 3
C1_Witness ==
    /\ pc = "returned"
    /\ state.approval_received
    /\ state.current_stage = "implementation_failed"
    /\ state.retry_count = 3
    /\ next_agent = "report_failure"

\* C2: in a single run the research stage is executed at most MAX_RETRIES (3)
\* times and the implementation stage is attempted at most once plus 3 retries.
C2_ResearchBounded ==
    /\ Executions({"research_agent"}) <= 3
    /\ Executions(ImplementationAgents) <= 1 + 3

\* C2 witness: a run in which a failed implementation was followed by research
C2_Witness ==
    /\ RunEnded
    /\ Executions({"implementation_agent"}) = 1
    /\ Executions({"research_agent"}) = 1

\* C3: when approval is given and every implementation attempt of a run from
\* init fails (no stage raising), the run ends by returning at report_failure
\* after exactly 3 research cycles, with retry_count = 3.
C3_AllFailuresReportFailure ==
    (/\ RunEnded
     /\ StartedAtInitApproved
     /\ Executions(ImplementationAgents) >= 1
     /\ AllOutcomes(ImplementationAgents, {"failed"})
     /\ AllOutcomes(AgentNames, {"ok", "failed", "snippet", "none"}))
    => (/\ pc = "returned"
        /\ next_agent = "report_failure"
        /\ state.retry_count = 3
        /\ Executions({"research_agent"}) = 3)

\* C4: a run from init with approval in which analysis, implementation and
\* diff all succeed returns normally at a terminal marker, and the returned
\* mapping has an entry for the analysis stage and one for the diff stage.
C4_SuccessReturnsAnalysisAndDiff ==
    (/\ RunEnded
     /\ StartedAtInitApproved
     /\ trace = <<<<"analyzer_agent", "ok">>, <<"implementation_agent", "ok">>,
                  <<"diff_agent", "ok">>>>)
    => (/\ pc = "returned"
        /\ next_agent \in TerminalMarkers
        /\ results["analyzer_agent"] # "absent"
        /\ results["diff_agent"] # "absent")

\* C5: run_full_flow always terminates: once the drive loop is entered it
\* eventually stops by returning or raising, whatever the initial state.
C5_Terminates == [](pc = "loop" => <>(pc \in {"returned", "raised"}))

\* C6: while approval_received is false the decision is wait_for_approval for
\* every stage and retry count, and run_next_agent executes no stage and
\* changes neither current_stage nor retry_count.
C6_NoApprovalNoProgress ==
    [][/\ (pc = "loop" /\ ~state.approval_received)
             => (next_agent' = "wait_for_approval" /\ pc' = "run")
       /\ (pc = "run" /\ ~state.approval_received)
             => (/\ state'.current_stage = state.current_stage
                 /\ state'.retry_count = state.retry_count
                 /\ trace' = trace
                 /\ pc' = "loop")]_vars

\* C6 witness: run_next_agent was called without approval at a stage past init
C6_Witness ==
    /\ ~state.approval_received
    /\ state.current_stage = "implementation_failed"
    /\ pc = "loop"
    /\ results["wait_for_approval"] = None

---------------------------------------------------------------------------
(* Properties of the model client *)

C8_OneIncrementPerSuccess ==
    \A c \in Callers :
        call[c].pc = "done" =>
            call[c].incs = IF call[c].result = "LightningResponse" THEN 1 ELSE 0

\* C9: calls_made never decreases, and get_remaining_quota() returns
\* monthly_quota - calls_made and changes nothing of the client.
C9_QuotaMonotoneAndPure ==
    [][/\ calls_made' >= calls_made
       /\ ret' # <<>> => (/\ ret' = <<monthly_quota - calls_made>>
                          /\ UNCHANGED <<calls_made, call, chat_calls, failures>>)]_vars

\* C9 witness: get_remaining_quota() answered after calls were counted
C9_Witness == ret = <<monthly_quota - 2>> /\ calls_made = 2

\* C10: a generate call that was given a prompt_fallback and ended in failure
\* had its fallback attempted: the completion service was invoked for the
\* call, or the quota re-check is what failed.
C10_FallbackAttempted ==
    \A c \in Callers :
        (call[c].pc = "done" /\ call[c].fallback /\ call[c].result = "RetryError")
            => (call[c].chats >= 1 \/ call[c].cause = "quota_exceeded")

\* C11: a response record is returned only for a reply that is a non-empty,
\* non-blank text: a None, empty or whitespace-only reply makes generate fail.
C11_EmptyReplyFails ==
    \A c \in Callers :
        call[c].result = "LightningResponse" => call[c].text = "text"

\* C12: the invocations of the completion service on one client, failed ones
\* and retry attempts included, never exceed monthly_quota.
C12_ServiceCallsWithinQuota == chat_calls <= monthly_quota

---------------------------------------------------------------------------
(* Properties of the retry path of the orchestrator *)

\* C19: in a finished run every completed research stage is followed by an
\* implementation attempt, with retry_count incremented before that attempt.
C19_ResearchThenRetry ==
    \A i \in DOMAIN trace :
        (RunEnded /\ trace[i][1] = "research_agent" /\ trace[i][2] # "raise")
            => (/\ i < Len(trace)
                /\ trace[i + 1][1] \in ImplementationAgents
                /\ state.retry_count >= start.retry_count + 1)

\* C20: in a run started from stage init with approval, the decision function
\* never returns error.
C20_NoErrorFromInit ==
    (StartedAtInitApproved /\ pc \in {"run", "returned"}) => next_agent # "error"

---------------------------------------------------------------------------
(* Stage functions: common *)

\* sequences over S of length at most n
SeqUpTo(S, n) == UNION {[1..k -> S] : k \in 0..n}

\* the orchestrator and the client as constructed, untouched by a stage function
PinnedInit ==
    /\ OrchInit
    /\ state = OrchestratorState(FALSE, "init", 0)
    /\ ClientInit

---------------------------------------------------------------------------
(* Structured-output parser: CodeAnalysisAgent._parse_analysis with            *)
(* _validate_and_fill_defaults (lightning_ai_service.py) and                   *)
(* CodeAnalysisAgent._parse_llm_response with _fill_defaults (analysis_agent.py) *)

\* number of entries of an affected_files array in the model's response
MaxEntries == 1

ListKeys == {"main_modules", "dependencies", "risks", "implementation_steps"}

\* a key of the parsed object: missing, a JSON array, or any other JSON value.
\* The objects drawn have every list key an array, or one key deviating, or
\* no list key at all.
FieldMaps ==
    {[k \in ListKeys |-> "list"], [k \in ListKeys |-> "absent"]}
    \cup {[[k \in ListKeys |-> "list"] EXCEPT ![d] = v] :
             d \in ListKeys, v \in {"absent", "notlist"}}

\* the "confidence" of an entry: missing, an int in or out of [0,100], a
\* numeric string, a word, or null
Confidences ==
    {[t |-> "absent", v |-> 0], [t |-> "int", v |-> 85], [t |-> "int", v |-> 150],
     [t |-> "numstr", v |-> 90], [t |-> "word", v |-> 0], [t |-> "null", v |-> 0]}

\* the "path" of an entry: missing, "", a file name, or null
PathValues == {"absent", "", "a.py", "null"}

\* an object with a file name, an int confidence and a list of changes
PlainEntry ==
    [dict |-> TRUE, path |-> "a.py", confidence |-> [t |-> "int", v |-> 85],
     changes |-> "list"]

\* an element of affected_files: a JSON value that is not an object, or an
\* object that is plain or deviates from it in one key
Entries ==
    {[PlainEntry EXCEPT !.dict = FALSE], PlainEntry,
     [PlainEntry EXCEPT !.changes = "notlist"]}
    \cup {[PlainEntry EXCEPT !.path = v] : v \in PathValues}
    \cup {[PlainEntry EXCEPT !.confidence = c] : c \in Confidences}

AffectedValues ==
    {[t |-> "absent", items |-> <<>>], [t |-> "notlist", items |-> <<>>]}
    \cup {[t |-> "list", items |-> s] : s \in SeqUpTo(Entries, MaxEntries)}

JsonObjects ==
    {[kind |-> "object", fields |-> f, affected_files |-> a] :
        f \in FieldMaps, a \in AffectedValues}

\* valid JSON that is not an object: json.loads returns a list, number, str, None or bool
NonObjects ==
    {[kind |-> k, fields |-> [f \in ListKeys |-> "absent"],
      affected_files |-> [t |-> "absent", items |-> <<>>]] :
        k \in {"array", "number", "string", "null", "true"}}

\* what the regular expressions of _manual_extraction find in the text
Found == [files : 0..1, lists : BOOLEAN]

NothingFound == [files |-> 0, lists |-> FALSE]

\* the response text, by the strategy of the parser it reaches: empty or
\* whitespace; a JSON document; an object in a ``` fence (well-formed or
\* not); an object embedded in prose; free text
ParserInputs ==
    LET NoValue == CHOOSE v \in NonObjects : v.kind = "null"
    IN  {[parser |-> p, form |-> f, value |-> NoValue, found |-> NothingFound] :
            p \in {"_parse_analysis", "_parse_llm_response"}, f \in {"empty", "blank"}}
        \cup {[parser |-> p, form |-> "direct", value |-> v, found |-> NothingFound] :
            p \in {"_parse_analysis", "_parse_llm_response"},
            v \in JsonObjects \cup NonObjects}
        \cup {[parser |-> p, form |-> "fenced", value |-> v, found |-> NothingFound] :
            p \in {"_parse_analysis", "_parse_llm_response"}, v \in JsonObjects}
        \cup {[parser |-> p, form |-> "embedded", value |-> v, found |-> f] :
            p \in {"_parse_analysis", "_parse_llm_response"}, v \in JsonObjects,
            f \in Found}
        \cup {[parser |-> p, form |-> f, value |-> NoValue, found |-> x] :
            p \in {"_parse_analysis", "_parse_llm_response"},
            f \in {"fenced_malformed", "free"}, x \in Found}

Returned(v) == [raised |-> FALSE, exc |-> None, value |-> v]
Raised(e)   == [raised |-> TRUE, exc |-> e, value |-> <<>>]

\* default_result / default: the "failed to parse" marker in risks
DefaultResult ==
    [main_modules |-> "empty", dependencies |-> "empty", affected_files |-> <<>>,
     risks |-> "marker", implementation_steps |-> "empty"]

\* int(file_info.get("confidence", 50)) raises on a word (ValueError) and on null (TypeError)
IntRaises(c) == c.t \in {"word", "null"}

IntOf(c) == IF c.t = "absent" THEN 50 ELSE c.v

\* str(file_info.get("path", ""))
StrOf(path) == IF path = "null" THEN "None" ELSE path

\* `isinstance(file_info, dict) and "path" in file_info`
EntryKept(e) == e.dict /\ e.path # "absent"

\* `if not isinstance(result[key], list): result[key] = []` after data.get(key, [])
ListField(v) == IF v = "list" THEN "items" ELSE "empty"

\* the appended entry; only _validate_and_fill_defaults coerces "changes" to a list
EntryOut(parser, e) ==
    [path |-> StrOf(e.path), confidence |-> IntOf(e.confidence),
     changes |-> IF parser = "_parse_analysis" THEN "list" ELSE e.changes]

RECURSIVE EntriesOut(_, _)
EntriesOut(parser, items) ==
    IF items = <<>> THEN <<>>
    ELSE IF EntryKept(Head(items))
         THEN <<EntryOut(parser, Head(items))>> \o EntriesOut(parser, Tail(items))
         ELSE EntriesOut(parser, Tail(items))

\* _validate_and_fill_defaults(data) / _fill_defaults(data): data.get raises
\* AttributeError unless data is a dict; int() raises inside the loop
validate_and_fill_defaults(parser, data) ==
    IF data.kind # "object" THEN Raised("AttributeError")
    ELSE LET items == data.affected_files.items
         IN  IF \E i \in DOMAIN items : EntryKept(items[i]) /\ IntRaises(items[i].confidence)
             THEN Raised(IF (LET i == CHOOSE j \in DOMAIN items :
                                      /\ EntryKept(items[j]) /\ IntRaises(items[j].confidence)
                                      /\ \A k \in 1..(j - 1) :
                                            ~(EntryKept(items[k]) /\ IntRaises(items[k].confidence))
                                 IN items[i].confidence.t = "word")
                         THEN "ValueError" ELSE "TypeError")
             ELSE Returned([main_modules |-> ListField(data.fields["main_modules"]),
                            dependencies |-> ListField(data.fields["dependencies"]),
                            affected_files |-> EntriesOut(parser, items),
                            risks |-> ListField(data.fields["risks"]),
                            implementation_steps |->
                                ListField(data.fields["implementation_steps"])])

\* Try 3: `any(key in result for key in [...])`
HasExpectedKey(parser, data) ==
    \/ data.affected_files.t # "absent"
    \/ data.fields["dependencies"] # "absent"
    \/ parser = "_parse_analysis" /\ data.fields["main_modules"] # "absent"

\* _manual_extraction(text): lists of the strings the patterns matched; the
\* entries it builds are dicts with a path and confidence 30
manual_extraction(parser, found) ==
    [kind |-> "object",
     fields |-> [k \in ListKeys |->
                    IF k = "main_modules" \/ ~found.lists
                    THEN "empty_list"
                    ELSE IF k = "risks" /\ parser = "_parse_llm_response"
                         THEN "empty_list" ELSE "list"],
     affected_files |->
        [t |-> "list",
         items |-> [i \in 1..found.files |->
                      [dict |-> TRUE, path |-> "a.py",
                       confidence |-> [t |-> "int", v |-> 30], changes |-> "list"]]]]

\* the last strategy: _parse_analysis returns default_result when nothing was
\* extracted, _parse_llm_response fills defaults in every case
LastResort(parser, found) ==
    IF parser = "_parse_analysis" /\ found = NothingFound
    THEN Returned(DefaultResult)
    ELSE validate_and_fill_defaults(parser, manual_extraction(parser, found))

\* _parse_analysis(response_text) / _parse_llm_response(response_text)
parse_analysis(in) ==
    CASE in.form \in {"empty", "blank"} -> Returned(DefaultResult)
      [] in.form \in {"direct", "fenced"} ->
            validate_and_fill_defaults(in.parser, in.value)
      [] in.form = "embedded" ->
            IF HasExpectedKey(in.parser, in.value)
            THEN validate_and_fill_defaults(in.parser, in.value)
            ELSE LastResort(in.parser, in.found)
      [] OTHER -> LastResort(in.parser, in.found)

Parse ==
    /\ res = <<>>
    /\ res' = <<parse_analysis(arg)>>
    /\ UNCHANGED <<arg, orchVars, clientVars>>

ParserInit == PinnedInit /\ arg \in ParserInputs /\ res = <<>>

SpecParser == ParserInit /\ [][Parse]_vars

\* C13: whatever the text, the parser returns without raising, and the
\* mapping returned holds a list under each of the five keys.
C13_ParserTotal ==
    res # <<>> =>
        /\ ~res[1].raised
        /\ \A k \in ListKeys : res[1].value[k] \in {"items", "empty", "marker"}
        /\ res[1].value.affected_files \in Seq([path : STRING, confidence : Int,
                                                changes : {"list", "notlist"}])

---------------------------------------------------------------------------
(* Implementation stage: ImplementationAgent.implement_changes *)

\* number of files in repo_content
MaxRepoFiles == 3

\* what self.ai_client.generate_code(prompt) does for one file: returns code
\* that differs from the original, the original itself, a falsy value, or raises
GenerationOutcomes == {"changed", "same", "falsy", "raise"}

\* repo_content with its files in iteration order (file i has path i), the
\* outcome of code generation for each, and whether writing a .bak file works
ImplementInputs ==
    {[gen |-> g, backup_ok |-> b] :
        g \in SeqUpTo(GenerationOutcomes, MaxRepoFiles), b \in BOOLEAN}

\* the accumulators before the loop
NoChanges ==
    [success |-> TRUE, modified_files |-> <<>>, errors |-> <<>>,
     execution_logs |-> <<>>]

\* _backup_file(path, original): the backup path, or "" when writing fails
backup_file(path, ok) == IF ok THEN <<path, ".bak">> ELSE <<>>

\* one iteration of the loop over repo_content.items()
ProcessFile(acc, path, outcome, backup_ok) ==
    CASE outcome = "raise" ->
            [acc EXCEPT !.errors = Append(@, [file_path |-> path]),
                        !.success = FALSE]
      [] outcome = "changed" ->
            [acc EXCEPT !.modified_files =
                            Append(@, [path |-> path,
                                       backup_path |-> backup_file(path, backup_ok)]),
                        !.execution_logs = Append(@, [path |-> path, kind |-> "modified"])]
      [] OTHER ->
            [acc EXCEPT !.execution_logs = Append(@, [path |-> path, kind |-> "no_changes"])]

RECURSIVE ProcessFiles(_, _, _)
ProcessFiles(in, i, acc) ==
    IF i > Len(in.gen) THEN acc
    ELSE ProcessFiles(in, i + 1, ProcessFile(acc, i, in.gen[i], in.backup_ok))

\* the loop leaving at the first file that raises
implement_changes_stops_at_error(in) ==
    LET bad == {i \in DOMAIN in.gen : in.gen[i] = "raise"}
        n   == IF bad = {} THEN Len(in.gen)
               ELSE CHOOSE i \in bad : \A j \in bad : i <= j
        acc == ProcessFiles([in EXCEPT !.gen = SubSeq(in.gen, 1, n)], 1, NoChanges)
    IN  [acc EXCEPT !.success = acc.success /\ Len(acc.errors) = 0]

\* implement_changes(repo_content, instructions)
implement_changes(in) ==
    LET acc == ProcessFiles(in, 1, NoChanges)
    IN  [acc EXCEPT !.success = acc.success /\ Len(acc.errors) = 0]

Implement ==
    /\ res = <<>>
    /\ res' = <<implement_changes(arg)>>
    /\ UNCHANGED <<arg, orchVars, clientVars>>

ImplementInit == PinnedInit /\ arg \in ImplementInputs /\ res = <<>>

SpecImplement == ImplementInit /\ [][Implement]_vars

\* the files for which code generation raised
RaisingFiles == {i \in DOMAIN arg.gen : arg.gen[i] = "raise"}

\* file i was processed: it is in modified_files or has a no-change log entry
Processed(r, i) ==
    \/ \E j \in DOMAIN r.modified_files : r.modified_files[j].path = i
    \/ \E j \in DOMAIN r.execution_logs :
          r.execution_logs[j] = [path |-> i, kind |-> "no_changes"]

\* C14: when code generation raises for exactly one file k, the result has
\* exactly one Error, its file_path is k, success is false, and every other
\* file, those after k included, was still processed.
C14_OneFailureIsolated ==
    (res # <<>> /\ Cardinality(RaisingFiles) = 1) =>
        /\ Len(res[1].errors) = 1
        /\ res[1].errors[1].file_path \in RaisingFiles
        /\ ~res[1].success
        /\ \A i \in DOMAIN arg.gen \ RaisingFiles : Processed(res[1], i)

\* C14 witness: the middle one of three files raised
C14_Witness ==
    /\ res # <<>>
    /\ Len(arg.gen) = 3
    /\ RaisingFiles = {2}
    /\ Processed(res[1], 3)

---------------------------------------------------------------------------
(* Research stage: GeminiResearchAgent and ResearchAgent.best_fix_snippet *)

\* number of solutions parsed out of one grounded response
MaxSolutions == 2

\* Solution, with the fields best_fix_snippet reads
Solution(conf, snippet, desc) ==
    [confidence |-> conf, code_snippet |-> snippet, description |-> desc]

\* confidences in hundredths: 0.6 for a URL found in the text, 0.9 for a
\* GitHub issue citation
SolutionConfidences == {60, 90}

\* extract_code_from_text gives None, or the stripped body of the first fenced
\* block, which may be empty
CodeSnippets == {None, "", "fix_a", "fix_b"}

\* getattr(chunk, 'text', "")
Descriptions == {"", "desc"}

Solutions ==
    {Solution(c, s, d) : c \in SolutionConfidences, s \in CodeSnippets, d \in Descriptions}

ResearchResult(solutions, recs) ==
    [solutions_found |-> solutions, recommendations |-> recs,
     total_sources |-> Len(solutions)]

\* one invocation of the research stage: whether an API key is available when
\* the client is first used, what fails inside the call, and the solutions the
\* response holds
ResearchInputs ==
    {[api_key |-> k, failure |-> f, solutions |-> ss] :
        k \in BOOLEAN, f \in {"none", "service", "parse"},
        ss \in SeqUpTo(Solutions, MaxSolutions)}

\* generate_recommendations(solutions, error_message, context)
generate_recommendations(solutions) ==
    IF Len(solutions) = 0 THEN "none_found_search_manually" ELSE "review_solutions"

\* _ensure_client(): raises ValueError when no key is configured
ensure_client(in) == IF in.api_key THEN Returned(None) ELSE Raised("ValueError")

\* research_implementation_failure: _ensure_client() runs before the try block
research_implementation_failure(in) ==
    IF ensure_client(in).raised THEN ensure_client(in)
    ELSE IF in.failure # "none"
         THEN Returned(ResearchResult(<<>>, "could_not_find_search_manually"))
         ELSE Returned(ResearchResult(in.solutions,
                                      generate_recommendations(in.solutions)))

\* find_solution
find_solution(in) == research_implementation_failure(in)

\* min(result.solutions_found, key=confidence)
Best_lowest_confidence(solutions) ==
    LET i == CHOOSE i \in DOMAIN solutions :
                /\ \A j \in DOMAIN solutions :
                      solutions[j].confidence >= solutions[i].confidence
                /\ \A j \in 1..(i - 1) :
                      solutions[j].confidence > solutions[i].confidence
    IN  solutions[i]

\* max(result.solutions_found, key=lambda s: s.confidence): the first solution
\* of maximal confidence
Best(solutions) ==
    LET i == CHOOSE i \in DOMAIN solutions :
                /\ \A j \in DOMAIN solutions :
                      solutions[j].confidence <= solutions[i].confidence
                /\ \A j \in 1..(i - 1) :
                      solutions[j].confidence < solutions[i].confidence
    IN  solutions[i]

\* x or y on strings and None
Or(x, y) == IF x \in {None, ""} THEN y ELSE x

\* best_fix_snippet(error_message, failed_code, context)
best_fix_snippet(in) ==
    LET r == find_solution(in)
    IN  IF r.raised THEN r
        ELSE IF Len(r.value.solutions_found) = 0
             THEN Returned([snippet |-> None, result |-> r.value])
             ELSE LET best == Best(r.value.solutions_found)
                  IN  Returned([snippet |-> Or(best.code_snippet, best.description),
                                result |-> r.value])

Research ==
    /\ res = <<>>
    /\ res' = <<best_fix_snippet(arg)>>
    /\ UNCHANGED <<arg, orchVars, clientVars>>

ResearchInit == PinnedInit /\ arg \in ResearchInputs /\ res = <<>>

SpecResearch == ResearchInit /\ [][Research]_vars

\* something failed inside the research stage
ResearchFailed == ~arg.api_key \/ arg.failure # "none"

\* C15: whatever fails inside the research stage (client configuration on first
\* use, the service call, response parsing), best_fix_snippet raises nothing and
\* returns a ResearchResult with no solutions and the generic recommendations.
C15_ResearchNeverPropagates ==
    (res # <<>> /\ ResearchFailed) =>
        /\ ~res[1].raised
        /\ res[1].value.result.solutions_found = <<>>
        /\ res[1].value.result.recommendations = "could_not_find_search_manually"

\* the solutions of maximal confidence
MaxConfidence(solutions) ==
    {i \in DOMAIN solutions :
        \A j \in DOMAIN solutions : solutions[j].confidence <= solutions[i].confidence}

\* C18: best_fix_snippet returns None when the research result has no
\* solutions; otherwise the code snippet of a solution of maximal confidence, or
\* that solution's description when it has no snippet; and always the full
\* ResearchResult next to it.
C18_BestFixSnippet ==
    (res # <<>> /\ ~res[1].raised) =>
        LET found == IF arg.failure = "none" THEN arg.solutions ELSE <<>>
            out   == res[1].value
        IN  /\ out.result.solutions_found = found
            /\ out.result.total_sources = Len(found)
            /\ found = <<>> => out.snippet = None
            /\ found # <<>> =>
                 \E i \in MaxConfidence(found) :
                    out.snippet = IF found[i].code_snippet \in {None, ""}
                                  THEN found[i].description
                                  ELSE found[i].code_snippet

\* C18 witness: the second of two solutions has the higher confidence and no
\* snippet, and its description came back
C18_Witness ==
    /\ res # <<>>
    /\ ~res[1].raised
    /\ arg.failure = "none"
    /\ Len(arg.solutions) = 2
    /\ arg.solutions[1].confidence < arg.solutions[2].confidence
    /\ arg.solutions[1].code_snippet = "fix_a"
    /\ arg.solutions[2].code_snippet = None
    /\ res[1].value.snippet = "desc"

---------------------------------------------------------------------------
(* Diff stage: DiffAgent.generate_diff *)

\* length of a file's content, in characters
MaxLen == 2

Paths == {"p", "q"}

\* a content is a string of plus signs and newlines: a line of one plus sign
\* is an ordinary line, a line of two is a line whose "+" diff line reads "+++"
Chars == {"+", "\n"}

Contents == SeqUpTo(Chars, MaxLen)

\* a snapshot maps the paths it holds to their contents
Snapshots == UNION {[D -> Contents] : D \in SUBSET Paths}

DiffInputs == [base : Snapshots, modified : Snapshots]

\* files.get(path, "")
Get(files, path) == IF path \in DOMAIN files THEN files[path] ELSE <<>>

\* str.splitlines(): the pieces between newlines, a final newline opening no
\* further line
RECURSIVE splitlines(_)
splitlines(s) ==
    IF s = <<>> THEN <<>>
    ELSE LET ends == {i \in DOMAIN s : s[i] = "\n"} \cup {Len(s) + 1}
             k    == CHOOSE i \in ends : \A j \in ends : i <= j
         IN  <<SubSeq(s, 1, k - 1)>> \o splitlines(SubSeq(s, k + 1, Len(s)))

\* line.startswith(prefix)
StartsWith(line, prefix) ==
    Len(line) >= Len(prefix) /\ SubSeq(line, 1, Len(prefix)) = prefix

\* the blocks a[i..i+k-1] = b[j..j+k-1] within a[alo..ahi] and b[blo..bhi]
CommonBlocks(a, b, alo, ahi, blo, bhi) ==
    {m \in (alo..ahi) \X (blo..bhi) \X (1..(ahi - alo + 1)) :
        /\ m[1] + m[3] - 1 <= ahi
        /\ m[2] + m[3] - 1 <= bhi
        /\ \A d \in 0..(m[3] - 1) : a[m[1] + d] = b[m[2] + d]}

\* SequenceMatcher.find_longest_match: the longest block, of those the one
\* starting earliest in a, of those the one starting earliest in b
LongestMatch(blocks) ==
    CHOOSE m \in blocks : \A o \in blocks :
        \/ m[3] > o[3]
        \/ m[3] = o[3] /\ m[1] < o[1]
        \/ m[3] = o[3] /\ m[1] = o[1] /\ m[2] <= o[2]

\* a run of lines, each behind a one-character prefix
Prefixed(c, lines, lo, hi) == [i \in 1..(hi - lo + 1) |-> <<c>> \o lines[lo + i - 1]]

\* the body of the hunk: equal lines behind a space, deleted lines behind a
\* minus, inserted lines behind a plus, deletions before insertions
RECURSIVE HunkBody(_, _, _, _, _, _)
HunkBody(a, b, alo, ahi, blo, bhi) ==
    LET blocks == CommonBlocks(a, b, alo, ahi, blo, bhi)
    IN  IF blocks = {}
        THEN Prefixed("-", a, alo, ahi) \o Prefixed("+", b, blo, bhi)
        ELSE LET m == LongestMatch(blocks)
             IN  HunkBody(a, b, alo, m[1] - 1, blo, m[2] - 1)
                   \o Prefixed(" ", a, m[1], m[1] + m[3] - 1)
                   \o HunkBody(a, b, m[1] + m[3], ahi, m[2] + m[3], bhi)

\* list(difflib.unified_diff(original, modified, fromfile, tofile, lineterm=""))
\* for files short enough to fall into one hunk: the two file headers, the
\* hunk header, the body
unified_diff(original, modified, path) ==
    <<  <<"-", "-", "-", " ", "base/", path>>,
        <<"+", "+", "+", " ", "mod/", path>>,
        <<"@", "@">> >>
      \o HunkBody(original, modified, 1, Len(original), 1, Len(modified))

\* sum(1 for line in diff if line.startswith(c) and not line.startswith(ccc))
CountLines(diff, c) ==
    Cardinality({i \in DOMAIN diff :
        StartsWith(diff[i], <<c>>) /\ ~StartsWith(diff[i], <<c, c, c>>)})

FileDiff(path, diff, summary) ==
    [path |-> path, diff_text |-> diff, change_summary |-> summary]

DiffResult(changed, added, removed, diffs) ==
    [files_changed |-> changed, lines_added |-> added, lines_removed |-> removed,
     file_diffs |-> diffs]

\* a file enters the diff whenever either side has a line
Differs_when_not_empty(original, modified) == original # <<>> \/ modified # <<>>

\* if original != modified
Differs(original, modified) == original # modified

\* summary: chosen by whether a side has no lines
ChangeSummary(original, modified, diff) ==
    IF original = <<>> THEN <<"File Added">>
    ELSE IF modified = <<>> THEN <<"File Removed">>
    ELSE << <<"Lines Changed", Len(diff)>> >>

\* one iteration of the loop over all_files
DiffFile(acc, base_files, modified_files, path) ==
    LET original == splitlines(Get(base_files, path))
        modified == splitlines(Get(modified_files, path))
        diff     == unified_diff(original, modified, path)
    IN  IF Differs(original, modified)
        THEN DiffResult(acc.files_changed + 1,
                        acc.lines_added + CountLines(diff, "+"),
                        acc.lines_removed + CountLines(diff, "-"),
                        Append(acc.file_diffs,
                               FileDiff(path, diff,
                                        ChangeSummary(original, modified, diff))))
        ELSE acc

RECURSIVE DiffLoop(_, _, _, _, _)
DiffLoop(base_files, modified_files, order, i, acc) ==
    IF i > Len(order) THEN acc
    ELSE DiffLoop(base_files, modified_files, order, i + 1,
                  DiffFile(acc, base_files, modified_files, order[i]))

\* the orders in which a set can be iterated
Orders(S) ==
    {f \in [1..Cardinality(S) -> S] : \A i, j \in DOMAIN f : i # j => f[i] # f[j]}

\* all_files = set(base_files.keys()) | set(modified_files.keys())
all_files(in) == DOMAIN in.base \cup DOMAIN in.modified

\* generate_diff(base_files, modified_files), the set being iterated in order
generate_diff(in, order) ==
    DiffLoop(in.base, in.modified, order, 1, DiffResult(0, 0, 0, <<>>))

GenerateDiff ==
    /\ res = <<>>
    /\ \E order \in Orders(all_files(arg)) : res' = <<generate_diff(arg, order)>>
    /\ UNCHANGED <<arg, orchVars, clientVars>>

DiffInit == PinnedInit /\ arg \in DiffInputs /\ res = <<>>

SpecDiff == DiffInit /\ [][GenerateDiff]_vars

\* C16: for every snapshot X, generate_diff(X, X) has files_changed,
\* lines_added and lines_removed 0 and no file_diffs.
C16_DiffOfSameIsEmpty ==
    (res # <<>> /\ arg.base = arg.modified) =>
        res[1] = DiffResult(0, 0, 0, <<>>)

\* C16 witness: a snapshot of two files with lines was diffed against itself
C16_Witness ==
    /\ res # <<>>
    /\ arg.base = arg.modified
    /\ DOMAIN arg.base = Paths
    /\ \A path \in Paths : Len(splitlines(arg.base[path])) >= 1

\* the summaries generate_diff gave for a path
SummariesOf(r, path) ==
    {r.file_diffs[i].change_summary : i \in {j \in DOMAIN r.file_diffs : r.file_diffs[j].path = path}}

\* C17: every path present only in modified is reported as File Added, every
\* path present only in base as File Removed, and a path present in both
\* snapshots gets neither label.
C17_AddedRemovedByPresence ==
    res # <<>> =>
        \A path \in Paths :
            /\ (path \in DOMAIN arg.modified \ DOMAIN arg.base)
                  => SummariesOf(res[1], path) = {<<"File Added">>}
            /\ (path \in DOMAIN arg.base \ DOMAIN arg.modified)
                  => SummariesOf(res[1], path) = {<<"File Removed">>}
            /\ (path \in DOMAIN arg.base \cap DOMAIN arg.modified)
                  => SummariesOf(res[1], path) \cap {<<"File Added">>, <<"File Removed">>} = {}

---------------------------------------------------------------------------
(* Properties of a run: retry_count, instructions, restart *)

\* C21: retry_count stays within 0..MAX_RETRIES, and a step changes it only
\* if it is the implementation-retry step, which adds exactly 1; the decision
\* and every other stage (analysis, first implementation attempt, research,
\* diff) leave it unchanged.
C21_RetryCountOnlyByRetry ==
    [][/\ state.retry_count \in 0..MAX_RETRIES
             => state'.retry_count \in 0..MAX_RETRIES
       /\ state'.retry_count # state.retry_count
             => (/\ pc = "run"
                 /\ get_next_agent_name = "implementation_retry"
                 /\ state'.retry_count = state.retry_count + 1)]_vars

\* C21 witness: a run from init went through analysis, a failed first
\* implementation attempt and research, and retry_count is still 0
C21_Witness ==
    /\ RunEnded
    /\ StartedAtInitApproved
    /\ trace = <<<<"analyzer_agent", "ok">>, <<"implementation_agent", "failed">>,
                 <<"research_agent", "snippet">>>>
    /\ state.retry_count = 0

\* the text of an instructions value, None read as the empty text
Text(instr) == IF instr.none THEN <<>> ELSE instr.text

\* s is a prefix of t
IsPrefix(s, t) == Len(s) <= Len(t) /\ SubSeq(t, 1, Len(s)) = s

\* C22: within a run the instructions only grow by appending: a research step
\* that found a snippet leaves the previous text followed by the suggested-fix
\* block, every other step leaves the instructions as they are, so the text
\* before a step is a prefix of the text after it.
C22_InstructionsOnlyAppended ==
    [][(pc \in {"loop", "run"}) =>
          (/\ IsPrefix(Text(instructions), Text(instructions'))
           /\ IF /\ pc = "run" /\ pc' = "loop"
                 /\ get_next_agent_name = "research_agent"
                 /\ trace' = Append(trace, <<"research_agent", "snippet">>)
              THEN Text(instructions') = Text(instructions) \o FixBlock
              ELSE instructions' = instructions)]_vars

\* C22 witness: the caller's text is followed by one suggested-fix block
C22_Witness ==
    /\ runs >= 1
    /\ Executions({"research_agent"}) = 1
    /\ ~instructions.none
    /\ instructions.text = <<"user">> \o FixBlock

---------------------------------------------------------------------------
(* Properties of the model client: overlap and retry *)

\* C23: with generate calls overlapping on one client, calls_made never
\* exceeds monthly_quota.
C23_CounterWithinQuota == calls_made <= monthly_quota

\* C24: a generate call (with the parameters generate defines) made while
\* calls_made >= monthly_quota fails on its first attempt: the quota check is
\* evaluated once and the failure is not retried.
C24_QuotaNotRetried ==
    \A c \in Callers :
        (call[c].at_quota /\ ~call[c].fallback) => call[c].attempt <= 1

\* C25: a generate call invokes the completion service at most 3 times; it
\* returns at the attempt that succeeded and attempts nothing after it; and a
\* call that failed made its third attempt.
C25_AtMostThreeAttempts ==
    \A c \in Callers :
        /\ call[c].chats <= 3
        /\ call[c].attempt <= 3
        /\ call[c].result = "LightningResponse"
              => (call[c].pc = "done" /\ call[c].chats = call[c].attempt)
        /\ (call[c].pc = "done" /\ call[c].result = "RetryError")
              => call[c].attempt = 3

\* C25 witness: a call failed after the service failed three times in a row
C25_Witness ==
    \E c \in Callers :
        /\ call[c].pc = "done"
        /\ call[c].result = "RetryError"
        /\ call[c].cause = "request_failed"
        /\ call[c].chats = 3
        /\ failures = 3

---------------------------------------------------------------------------
(* Properties of a run: restart and a raising analysis stage *)

\* C27: a run_full_flow invocation that follows an earlier run on the same
\* orchestrator starts from a fresh state: stage init and retry_count 0.
C27_RunStartsFresh ==
    runs >= 2 => (start.current_stage = "init" /\ start.retry_count = 0)

\* C28: when the analysis stage raises, run_full_flow raises to its caller,
\* the analysis stage is the last stage executed, and the state is what it was
\* when the run began: current_stage init, retry_count unchanged.
C28_AnalysisRaiseAborts ==
    \A i \in DOMAIN trace :
        trace[i] = <<"analyzer_agent", "raise">> =>
            /\ pc = "raised"
            /\ i = Len(trace)
            /\ state.current_stage = "init"
            /\ state.retry_count = start.retry_count
            /\ results["analyzer_agent"] = "absent"

\* C28 witness: a run from init with approval ended in the analysis stage raising
C28_Witness ==
    /\ StartedAtInitApproved
    /\ pc = "raised"
    /\ trace = <<<<"analyzer_agent", "raise">>>>

---------------------------------------------------------------------------
(* Properties of the parser's affected_files entries *)

\* C30: every affected_files entry of a parser result has a non-empty path
\* and an integer confidence within 0..100.
C30_EntriesWellFormed ==
    (res # <<>> /\ ~res[1].raised) =>
        \A i \in DOMAIN res[1].value.affected_files :
            /\ res[1].value.affected_files[i].path # ""
            /\ res[1].value.affected_files[i].confidence \in 0..100

---------------------------------------------------------------------------
(* The implementation and diff stages of one run, on file contents *)

\* implementation attempts on one snapshot: the first and the retries
MaxAttempts == 2

\* what generate_code does for a file: it raises, or returns a text ("" and
\* None are both falsy)
Generated ==
    {[raises |-> TRUE, code |-> <<>>]} \cup [raises : {FALSE}, code : Contents]

\* `if modified and modified != original`, after a call that may raise
OutcomeOf(original, g) ==
    IF g.raises THEN "raise"
    ELSE IF g.code = <<>> THEN "falsy"
    ELSE IF g.code # original THEN "changed"
    ELSE "same"

\* current_content bound to repo_content itself
WriteTarget_aliased == "repo_content"

\* current_content = copy.deepcopy(repo_content): line 63 writes into the copy
WriteTarget == "current_content"

\* implement_changes over the files of repo in the order given
ImplementOn(repo, generated, order) ==
    implement_changes([gen |-> [i \in DOMAIN order |->
                                   OutcomeOf(repo[order[i]], generated[order[i]])],
                       backup_ok |-> TRUE])

\* the paths of result.modified_files
ModifiedPaths(result, order) ==
    {order[result.modified_files[j].path] : j \in DOMAIN result.modified_files}

\* the dict repo_content after implement_changes returned
RepoAfterImplement(repo, generated, modified) ==
    IF WriteTarget = "repo_content"
    THEN [path \in DOMAIN repo |->
             IF path \in modified THEN generated[path].code ELSE repo[path]]
    ELSE repo

\* {file.path: file.modified_content for file in ...modified_files}
ModifiedSnapshot(generated, modified) == [path \in modified |-> generated[path].code]

LastStage == res[Len(res)]

\* the implementation_agent and implementation_retry branches: the stage is
\* called with self.repo_content
PipelineImplement ==
    /\ \/ res = <<>>
       \/ /\ res # <<>>
          /\ Len(res) < MaxAttempts
          /\ LastStage.stage = "implementation"
          /\ ~LastStage.result.success
    /\ \E order \in Orders(DOMAIN arg.repo) :
          LET result   == ImplementOn(arg.repo, arg.generated, order)
              modified == ModifiedPaths(result, order)
          IN  /\ res' = Append(res, [stage |-> "implementation", given |-> arg.repo,
                                     modified |-> modified, result |-> result])
              /\ arg' = [arg EXCEPT !.repo =
                            RepoAfterImplement(arg.repo, arg.generated, modified)]
    /\ UNCHANGED <<orchVars, clientVars>>

\* the diff_agent branch, after an implementation attempt that succeeded
PipelineDiff ==
    /\ res # <<>>
    /\ LastStage.stage = "implementation"
    /\ LastStage.result.success
    /\ LET in == [base |-> arg.repo,
                  modified |-> ModifiedSnapshot(arg.generated, LastStage.modified)]
       IN  \E order \in Orders(all_files(in)) :
              res' = Append(res, [stage |-> "diff", given |-> arg.repo,
                                  modified |-> LastStage.modified,
                                  result |-> generate_diff(in, order)])
    /\ UNCHANGED <<arg, orchVars, clientVars>>

\* run_full_flow(repo_content_old, instructions): self.repo_content = repo_content_old
PipelineInit ==
    /\ PinnedInit
    /\ \E repo \in Snapshots : \E g \in [DOMAIN repo -> Generated] :
          arg = [repo |-> repo, original |-> repo, generated |-> g]
    /\ res = <<>>

PipelineNext == PipelineImplement \/ PipelineDiff

SpecPipeline == PipelineInit /\ [][PipelineNext]_vars

\* C26: a file the implementation stage left unchanged has no FileDiff in the
\* result of the diff stage, and when the implementation stage modified no
\* file the diff has files_changed = 0.
C26_UnchangedFileNoDiff ==
    (res # <<>> /\ LastStage.stage = "diff") =>
        /\ \A path \in DOMAIN arg.original \ LastStage.modified :
              SummariesOf(LastStage.result, path) = {}
        /\ LastStage.modified = {} => LastStage.result.files_changed = 0

\* C29: no stage modifies the repo_content snapshot: self.repo_content stays
\* what run_full_flow was given, so every implementation attempt, retries
\* included, and the diff stage as its base receive the original contents.
C29_RepoContentUntouched ==
    /\ arg.repo = arg.original
    /\ \A i \in DOMAIN res : res[i].given = arg.original

\* C29 witness: a retry followed an attempt that changed one file and failed
\* on the other
C29_Witness ==
    /\ Len(res) = 2
    /\ res[1].stage = "implementation"
    /\ res[2].stage = "implementation"
    /\ res[1].modified # {}
    /\ ~res[1].result.success

=============================================================================
